---- MODULE Spec2Model ----
(***************************************************************************)
(* A model of the progress_string crate (src/src/lib.rs): the BarBuilder   *)
(* configuration chain, the Bar it yields, the two mutating methods        *)
(* (update, replace) and the three observers (Display::fmt, get_width,     *)
(* get_last_width).                                                        *)
(*                                                                         *)
(* The f32 arithmetic of calculate_percent, get_width and fmt is modelled  *)
(* bit-exactly for the values the model reaches: an f32 is a record        *)
(* [k, neg, m, e] that stands for (-1)^neg * m * 2^e with m = 0 or         *)
(* 2^23 <= m < 2^24 (24 significant bits, round to nearest, ties to even), *)
(* or for +infinity (k = "inf") or a NaN (k = "nan").  Strings are         *)
(* sequences of one-character strings.                                     *)
(***************************************************************************)
EXTENDS Integers, Sequences, FiniteSets

VARIABLES
    bar,            \* the Bar: BarBuilder.bar while building, the built Bar after
    phase,          \* "builder" until build() or get_bar(), then "bar"
    call,           \* history: the name of the last method called
    out,            \* history: what the last call returned
    leading_given,  \* history: the latest leading_char call, if any, passed Some
    mutated,        \* history: update or replace has been called
    last_replace,   \* history: <<v>> for the latest replace(v), <<>> if none
    added_since     \* history: the sum of the update deltas since then

vars == <<bar, phase, call, out, leading_given, mutated, last_replace, added_since>>

\* ------------------------------------------------------------------ f32

\* 2^23 and 2^24: an f32 significand has 24 bits (IEEE 754 binary32).
MantLo == 8388608
MantHi == 16777216

F32Zero == [k |-> "fin", neg |-> FALSE, m |-> 0, e |-> 0]
F32Inf  == [k |-> "inf", neg |-> FALSE, m |-> 0, e |-> 0]
F32NaN  == [k |-> "nan", neg |-> FALSE, m |-> 0, e |-> 0]

\* n / 2^sh rounded to the nearest integer, ties to even.
ShiftRightRNE(n, sh) ==
    LET d == 2 ^ sh
        q == n \div d
        r == n % d
    IN  IF 2 * r > d \/ (2 * r = d /\ q % 2 = 1) THEN q + 1 ELSE q

\* The number of bits of n > 0.
RECURSIVE BitLen(_)
BitLen(n) == IF n = 0 THEN 0 ELSE 1 + BitLen(n \div 2)

\* The f32 nearest to n * 2^s, for an integer n >= 0.
F32OfDyadic(n, s) ==
    IF n = 0 THEN F32Zero
    ELSE LET b == BitLen(n)
         IN  IF b <= 24
             THEN [k |-> "fin", neg |-> FALSE, m |-> n * 2 ^ (24 - b), e |-> s - (24 - b)]
             ELSE LET q == ShiftRightRNE(n, b - 24)
                  IN  IF q = MantHi
                      THEN [k |-> "fin", neg |-> FALSE, m |-> MantLo, e |-> s + (b - 24) + 1]
                      ELSE [k |-> "fin", neg |-> FALSE, m |-> q, e |-> s + (b - 24)]

\* `n as f32` for a usize n: exact below 2^24, rounded above.
F32OfInt(n) == F32OfDyadic(n, 0)

\* The least j >= 0 with n * 2^j >= MantLo * d (n, d > 0, n < MantHi * d).
RECURSIVE QuotShift(_, _, _)
QuotShift(n, d, j) == IF n * 2 ^ j >= MantLo * d THEN j ELSE QuotShift(n, d, j + 1)

\* The f32 nearest to the quotient n / d of two integers 0 <= n < 2^24,
\* 0 <= d < 2^24 (both exact as f32): IEEE division, with x/0 = inf, 0/0 = NaN.
F32DivInt(n, d) ==
    IF d = 0 THEN (IF n = 0 THEN F32NaN ELSE F32Inf)
    ELSE IF n = 0 THEN F32Zero
    ELSE LET j  == QuotShift(n, d, 0)
             nn == n * 2 ^ j
             q  == nn \div d
             r  == nn % d
             up == 2 * r > d \/ (2 * r = d /\ q % 2 = 1)
             mm == IF up THEN q + 1 ELSE q
         IN  IF mm >= MantHi
             THEN [k |-> "fin", neg |-> FALSE, m |-> MantLo, e |-> 1 - j]
             ELSE [k |-> "fin", neg |-> FALSE, m |-> mm, e |-> 0 - j]

\* n as f32 * x for an integer 0 <= n < 2^24 and a non-negative f32 x:
\* IEEE multiplication (0 * inf = NaN).
F32MulInt(n, x) ==
    IF x.k = "nan" THEN F32NaN
    ELSE IF x.k = "inf" THEN (IF n = 0 THEN F32NaN ELSE F32Inf)
    ELSE F32OfDyadic(n * x.m, x.e)

\* x - 1.0 for a non-negative f32 x.  With x = m * 2^e: for e >= 2 the
\* difference rounds back to x; for -24 <= e < 2 it is exact or rounded by
\* F32OfDyadic; for e < -24 (x < 1/2) it is -(2^24 - m / 2^(-e-24)) * 2^-24
\* with the quotient rounded to nearest, ties to even.
F32SubOne(x) ==
    IF x.k # "fin" THEN x
    ELSE IF x.m = 0 THEN [k |-> "fin", neg |-> TRUE, m |-> MantLo, e |-> -23]
    ELSE IF x.e >= 2 THEN x
    ELSE IF x.e >= 0 THEN F32OfDyadic(x.m * 2 ^ x.e - 1, 0)
    ELSE IF x.e >= -24
         THEN LET one == 2 ^ (0 - x.e)
              IN  IF x.m >= one
                  THEN F32OfDyadic(x.m - one, x.e)
                  ELSE [F32OfDyadic(one - x.m, x.e) EXCEPT !.neg = TRUE]
    ELSE LET sh == (0 - x.e) - 24
             r  == IF sh >= 26 THEN 0 ELSE ShiftRightRNE(x.m, sh)
         IN  IF r = 0
             THEN [k |-> "fin", neg |-> TRUE, m |-> MantLo, e |-> -23]
             ELSE [k |-> "fin", neg |-> TRUE, m |-> MantHi - r, e |-> -24]

\* (i as f32) < x for an integer 0 <= i < 2^24: false against a NaN.  A finite
\* x > 0 with e <= -24 lies in (0, 1); one with e >= 8 is at least 2^31.
F32IntLess(i, x) ==
    IF x.k = "nan" THEN FALSE
    ELSE IF x.k = "inf" THEN TRUE
    ELSE IF x.neg \/ x.m = 0 THEN FALSE
    ELSE IF x.e >= 8 THEN TRUE
    ELSE IF x.e >= 0 THEN i < x.m * 2 ^ x.e
    ELSE IF x.e <= -24 THEN i = 0
    ELSE i < (x.m + 2 ^ (0 - x.e) - 1) \div 2 ^ (0 - x.e)

\* x >= y and x > y for a non-negative f32 x and a positive finite f32 y:
\* both significands are normalised, so the exponent decides first.
F32Geq(x, y) ==
    IF x.k = "nan" THEN FALSE
    ELSE IF x.k = "inf" THEN TRUE
    ELSE IF x.m = 0 THEN FALSE
    ELSE x.e > y.e \/ (x.e = y.e /\ x.m >= y.m)

F32Greater(x, y) ==
    IF x.k = "nan" THEN FALSE
    ELSE IF x.k = "inf" THEN TRUE
    ELSE IF x.m = 0 THEN FALSE
    ELSE x.e > y.e \/ (x.e = y.e /\ x.m > y.m)

\* ------------------------------------------------------------ formatting

Digit(d) == CASE d = 0 -> "0" [] d = 1 -> "1" [] d = 2 -> "2" [] d = 3 -> "3"
              [] d = 4 -> "4" [] d = 5 -> "5" [] d = 6 -> "6" [] d = 7 -> "7"
              [] d = 8 -> "8" [] d = 9 -> "9"

\* format!("{}", n) and format!("{:?}", n) for a usize n: plain decimal.
RECURSIVE FormatUsize(_)
FormatUsize(n) == IF n < 10 THEN <<Digit(n)>>
                  ELSE FormatUsize(n \div 10) \o <<Digit(n % 10)>>

\* The non-negative finite f32 x in hundredths, rounded to nearest, ties to
\* even on its exact value (core::fmt's exact mode).
Hundredths(x) ==
    IF x.m = 0 THEN 0
    ELSE IF x.e >= 0 THEN 100 * x.m * 2 ^ x.e
    ELSE IF x.e <= -32 THEN 0
    ELSE IF x.e = -31 THEN (IF 100 * x.m > 2 ^ 30 THEN 1 ELSE 0)
    ELSE ShiftRightRNE(100 * x.m, 0 - x.e)

\* format!("{:.2}", x) for a non-negative f32 x.
FormatF32Prec2(x) ==
    IF x.k = "nan" THEN <<"N", "a", "N">>
    ELSE IF x.k = "inf" THEN <<"i", "n", "f">>
    ELSE LET h == Hundredths(x)
         IN  FormatUsize(h \div 100) \o <<".", Digit((h % 100) \div 10), Digit(h % 10)>>

\* ------------------------------------------------------------------ Bar

\* The inputs the model draws from.  Totals holds the degenerate 0, a total
\* that does not divide the width, and one other than the default; Widths
\* holds the degenerate 0 and widths other than the default 50.
Totals        == {0, 7}
Widths        == {0, 3}
EmptyChars    == {"0"}
FullChars     == {"X"}
LeadingChars  == {">"}
Deltas        == {10, 50}
ReplaceValues == {0, 95}

\* The largest current_partial the model lets update reach (usize is wider).
MaxPartial == 120

None == "None"

\* U+2588 FULL BLOCK, the default full_char and leading_char, written "#".
FullBlock == "#"

\* impl Default for Bar
BarDefault ==
    [current_partial     |-> 0,
     total               |-> 100,
     width               |-> 50,
     full_char           |-> FullBlock,
     empty_char          |-> " ",
     leading_char        |-> FullBlock,
     include_percent     |-> FALSE,
     include_numbers     |-> FALSE,
     previous_text_width |-> 0]

\* Bar::calculate_percent
calculate_percent(self) == F32DivInt(self.current_partial, self.total)

\* The f32 literals 0.95 and 0.095 of get_width.
Lit095  == [k |-> "fin", neg |-> FALSE, m |-> 15938355, e |-> -24]
Lit0095 == [k |-> "fin", neg |-> FALSE, m |-> 12750684, e |-> -27]

\* NumbersWidth with one separator counted instead of two.
NumbersWidthOneSeparator(self) ==
    Len(FormatUsize(self.total)) + Len(FormatUsize(self.current_partial)) + 1

\* get_width's share for " cur/total".
NumbersWidth(self) == Len(FormatUsize(self.total)) + Len(FormatUsize(self.current_partial)) + 2

\* get_width's share for the percent: three tiers on the ratio.
PercentWidth(self) ==
    LET current_percent == calculate_percent(self)
    IN  IF F32Geq(current_percent, Lit095) THEN 8
        ELSE IF F32Greater(current_percent, Lit0095) THEN 7
        ELSE 6

\* The width get_width starts from.
BaseWidth(self) == 52

\* Bar::get_width
get_width(self) ==
    BaseWidth(self)
    + (IF self.include_numbers THEN NumbersWidth(self) ELSE 0)
    + (IF self.include_percent THEN PercentWidth(self) ELSE 0)

\* Bar::get_last_width
get_last_width(self) == self.previous_text_width

\* self.width as f32 * percent, the fill boundary of fmt.
Fill(self) == F32MulInt(self.width, calculate_percent(self))

\* The character fmt writes for column i of the track.
Cell(self, i, fill, fill_less_one) ==
    IF F32IntLess(i, fill_less_one) THEN self.full_char
    ELSE IF F32IntLess(i, fill) THEN self.leading_char
    ELSE self.empty_char

\* Track with the loop running over 0 ..= width.
TrackInclusive(self) ==
    LET fill          == Fill(self)
        fill_less_one == F32SubOne(fill)
    IN  [j \in 1 .. self.width + 1 |-> Cell(self, j - 1, fill, fill_less_one)]

\* The for loop of fmt: one character per column 0 .. width - 1.
Track(self) ==
    LET fill          == Fill(self)
        fill_less_one == F32SubOne(fill)
    IN  [j \in 1 .. self.width |-> Cell(self, j - 1, fill, fill_less_one)]

\* " {:.2}%" of percent * 100.0
PercentSuffix(self) ==
    <<" ">> \o FormatF32Prec2(F32MulInt(100, calculate_percent(self))) \o <<"%">>

\* " {:?}/{:?}" of current_partial and total
NumbersSuffix(self) ==
    <<" ">> \o FormatUsize(self.current_partial) \o <<"/">> \o FormatUsize(self.total)

\* Suffix with the numbers written before the percent.
SuffixNumbersFirst(self) ==
    (IF self.include_numbers THEN NumbersSuffix(self) ELSE <<>>)
    \o (IF self.include_percent THEN PercentSuffix(self) ELSE <<>>)

\* What fmt writes after the closing bracket.
Suffix(self) ==
    (IF self.include_percent THEN PercentSuffix(self) ELSE <<>>)
    \o (IF self.include_numbers THEN NumbersSuffix(self) ELSE <<>>)

\* <Bar as Display>::fmt
fmt(self) == <<"[">> \o Track(self) \o <<"]">> \o Suffix(self)

\* ------------------------------------------------------- method bodies

\* BarBuilder::total
builder_total(self, total) == [self EXCEPT !.total = total]

\* BarBuilder::width
builder_width(self, width) == [self EXCEPT !.width = width]

\* BarBuilder::empty_char
builder_empty_char(self, character) == [self EXCEPT !.empty_char = character]

\* BarBuilder::full_char
builder_full_char(self, character) == [self EXCEPT !.full_char = character]

\* BarBuilder::leading_char, character being Some(c) or None
builder_leading_char(self, character) ==
    IF character # None
    THEN [self EXCEPT !.leading_char = character]
    ELSE [self EXCEPT !.leading_char = self.full_char]

\* BarBuilder::include_percent
builder_include_percent(self) == [self EXCEPT !.include_percent = TRUE]

\* BarBuilder::include_numbers
builder_include_numbers(self) == [self EXCEPT !.include_numbers = TRUE]

\* BarBuilder::build and the deprecated BarBuilder::get_bar
builder_build(self) == self

\* update with the snapshot taken after current_partial has changed.
updateSnapshotLate(self, to_add) ==
    LET after == [self EXCEPT !.current_partial = self.current_partial + to_add]
    IN  [after EXCEPT !.previous_text_width = get_width(after)]

\* update with current_partial clamped to total.
updateClamped(self, to_add) ==
    [self EXCEPT !.previous_text_width = get_width(self),
                 !.current_partial     = IF self.current_partial + to_add > self.total
                                         THEN self.total
                                         ELSE self.current_partial + to_add]

\* Bar::update
update(self, to_add) ==
    [self EXCEPT !.previous_text_width = get_width(self),
                 !.current_partial     = self.current_partial + to_add]

\* Bar::replace
replace(self, new_progress) ==
    [self EXCEPT !.previous_text_width = get_width(self),
                 !.current_partial     = new_progress]

\* ------------------------------------------------------------- actions

Unit        == [kind |-> "unit", str |-> <<>>, num |-> 0]
OutStr(s)   == [kind |-> "string", str |-> s, num |-> 0]
OutNum(n)   == [kind |-> "usize", str |-> <<>>, num |-> n]

\* BarBuilder::new()
Init ==
    /\ bar = BarDefault
    /\ phase = "builder"
    /\ call = "new"
    /\ out = Unit
    /\ leading_given = FALSE
    /\ mutated = FALSE
    /\ last_replace = <<>>
    /\ added_since = 0

\* A chained builder call: the builder is moved in and out, its bar changed.
Chain(name, b) ==
    /\ phase = "builder"
    /\ bar' = b
    /\ call' = name
    /\ out' = Unit
    /\ UNCHANGED <<phase, mutated, last_replace, added_since>>

DoTotal == \E n \in Totals :
    Chain("total", builder_total(bar, n)) /\ UNCHANGED leading_given

DoWidth == \E n \in Widths :
    Chain("width", builder_width(bar, n)) /\ UNCHANGED leading_given

DoEmptyChar == \E c \in EmptyChars :
    Chain("empty_char", builder_empty_char(bar, c)) /\ UNCHANGED leading_given

DoFullChar == \E c \in FullChars :
    Chain("full_char", builder_full_char(bar, c)) /\ UNCHANGED leading_given

DoLeadingChar == \E c \in LeadingChars \cup {None} :
    Chain("leading_char", builder_leading_char(bar, c)) /\ leading_given' = (c # None)

DoIncludePercent ==
    Chain("include_percent", builder_include_percent(bar)) /\ UNCHANGED leading_given

DoIncludeNumbers ==
    Chain("include_numbers", builder_include_numbers(bar)) /\ UNCHANGED leading_given

DoBuild ==
    /\ phase = "builder"
    /\ phase' = "bar"
    /\ bar' = builder_build(bar)
    /\ call' = "build"
    /\ out' = Unit
    /\ UNCHANGED <<leading_given, mutated, last_replace, added_since>>

DoGetBar ==
    /\ phase = "builder"
    /\ phase' = "bar"
    /\ bar' = builder_build(bar)
    /\ call' = "get_bar"
    /\ out' = Unit
    /\ UNCHANGED <<leading_given, mutated, last_replace, added_since>>

\* bar.update(to_add); the model stops at MaxPartial.
DoUpdate == \E to_add \in Deltas :
    /\ phase = "bar"
    /\ bar.current_partial + to_add <= MaxPartial
    /\ bar' = update(bar, to_add)
    /\ call' = "update"
    /\ out' = Unit
    /\ mutated' = TRUE
    /\ added_since' = added_since + to_add
    /\ UNCHANGED <<phase, leading_given, last_replace>>

\* bar.replace(new_progress)
DoReplace == \E new_progress \in ReplaceValues :
    /\ phase = "bar"
    /\ bar' = replace(bar, new_progress)
    /\ call' = "replace"
    /\ out' = Unit
    /\ mutated' = TRUE
    /\ last_replace' = <<new_progress>>
    /\ added_since' = 0
    /\ UNCHANGED <<phase, leading_given>>

\* DoFmt with fmt recording the width it rendered in the snapshot.
DoFmtRecording ==
    /\ phase = "bar"
    /\ call' = "fmt"
    /\ out' = OutStr(fmt(bar))
    /\ bar' = [bar EXCEPT !.previous_text_width = get_width(bar)]
    /\ UNCHANGED <<phase, leading_given, mutated, last_replace, added_since>>

\* bar.to_string() / format!("{}", bar): fmt takes &self
DoFmt ==
    /\ phase = "bar"
    /\ call' = "fmt"
    /\ out' = OutStr(fmt(bar))
    /\ UNCHANGED <<bar, phase, leading_given, mutated, last_replace, added_since>>

\* bar.get_width(): takes &self
DoGetWidth ==
    /\ phase = "bar"
    /\ call' = "get_width"
    /\ out' = OutNum(get_width(bar))
    /\ UNCHANGED <<bar, phase, leading_given, mutated, last_replace, added_since>>

\* bar.get_last_width(): takes &self
DoGetLastWidth ==
    /\ phase = "bar"
    /\ call' = "get_last_width"
    /\ out' = OutNum(get_last_width(bar))
    /\ UNCHANGED <<bar, phase, leading_given, mutated, last_replace, added_since>>

Next ==
    \/ DoTotal
    \/ DoWidth
    \/ DoEmptyChar
    \/ DoFullChar
    \/ DoLeadingChar
    \/ DoIncludePercent
    \/ DoIncludeNumbers
    \/ DoBuild
    \/ DoGetBar
    \/ DoUpdate
    \/ DoReplace
    \/ DoFmt
    \/ DoGetWidth
    \/ DoGetLastWidth

Spec == Init /\ [][Next]_vars

\* -------------------------------------------------------------- claims

Built == phase = "bar"

\* The text fmt renders after the closing bracket of a track of bar.width cells.
Rendered     == fmt(bar)
AfterBracket == SubSeq(Rendered, bar.width + 3, Len(Rendered))

Digits == {"0", "1", "2", "3", "4", "5", "6", "7", "8", "9"}

DigitValue(ch) == CHOOSE d \in 0 .. 9 : Digit(d) = ch

RECURSIVE ParseDecimal(_)
ParseDecimal(s) ==
    IF s = <<>> THEN 0
    ELSE 10 * ParseDecimal(SubSeq(s, 1, Len(s) - 1)) + DigitValue(s[Len(s)])

\* s is the plain decimal numeral of n: digits only, no leading zero.
PlainDecimal(s, n) ==
    /\ Len(s) >= 1
    /\ \A i \in 1 .. Len(s) : s[i] \in Digits
    /\ (Len(s) > 1 => s[1] # "0")
    /\ ParseDecimal(s) = n

\* The number of decimal digits of n.
RECURSIVE DecimalDigits(_)
DecimalDigits(n) == IF n < 10 THEN 1 ELSE 1 + DecimalDigits(n \div 10)

Abs(x) == IF x < 0 THEN 0 - x ELSE x

\* seg is ' ' + c + '/' + t in plain decimal.
IsNumbersSegment(seg, c, t) ==
    /\ Len(seg) >= 4
    /\ seg[1] = " "
    /\ \E k \in 3 .. Len(seg) - 1 :
          /\ seg[k] = "/"
          /\ PlainDecimal(SubSeq(seg, 2, k - 1), c)
          /\ PlainDecimal(SubSeq(seg, k + 1, Len(seg)), t)

\* seg is ' ' + a numeral with exactly two decimals + '%', the numeral being
\* c / t * 100 to within one hundredth (the value is computed in f32).
IsPercentSegment(seg, c, t) ==
    /\ Len(seg) >= 6
    /\ seg[1] = " "
    /\ seg[Len(seg)] = "%"
    /\ seg[Len(seg) - 3] = "."
    /\ LET whole == SubSeq(seg, 2, Len(seg) - 4)
           frac  == SubSeq(seg, Len(seg) - 2, Len(seg) - 1)
       IN  /\ \A i \in 1 .. 2 : frac[i] \in Digits
           /\ PlainDecimal(whole, ParseDecimal(whole))
           /\ Abs((100 * ParseDecimal(whole) + ParseDecimal(frac)) * t - 10000 * c) <= t

\* C1: get_last_width() is 0 on a bar that was never mutated; every update or
\* replace leaves in it the value get_width() had just before that call, and
\* no other call changes it, so only the latest mutation counts.
C1_LastWidthIsWidthBeforeLastMutation ==
    /\ [](~mutated => get_last_width(bar) = 0)
    /\ [][IF call' \in {"update", "replace"}
          THEN get_last_width(bar') = get_width(bar)
          ELSE get_last_width(bar') = get_last_width(bar)]_vars

\* C1 witness: after a mutation get_last_width() has returned a snapshot that
\* is neither 0 nor the present width.
C1_Witness ==
    /\ mutated
    /\ call = "get_last_width"
    /\ out.num > 0
    /\ out.num # get_width(bar)

\* C2: current_partial is the argument of the latest replace (0 if none) plus
\* the deltas of the updates since; it is not clamped to total.
C2_PartialIsReplacePlusDeltas ==
    bar.current_partial =
        (IF last_replace = <<>> THEN 0 ELSE last_replace[1]) + added_since

\* C2 witness: a replace followed by updates has taken current_partial past a
\* positive total.
C2_Witness ==
    /\ Built
    /\ last_replace # <<>>
    /\ added_since > 0
    /\ bar.total > 0
    /\ bar.current_partial > bar.total

\* C3: with width 50, include_percent and no include_numbers, get_width() is
\* the length of the rendered string for every total > 0 and every
\* current_partial in 0 .. total.
C3_WidthIsRenderedLengthWithPercent ==
    (/\ Built
     /\ bar.width = 50
     /\ bar.include_percent
     /\ ~bar.include_numbers
     /\ bar.total > 0
     /\ bar.current_partial <= bar.total)
    => get_width(bar) = Len(Rendered)

\* C4: with neither include_percent nor include_numbers, get_width() is the
\* configured width plus 2.
C4_BareWidthIsWidthPlusTwo ==
    (Built /\ ~bar.include_percent /\ ~bar.include_numbers)
    => get_width(bar) = bar.width + 2

\* C5: a bar built without an explicitly supplied leading character has the
\* full_char the builder held at build() as its leading character.
C5_LeadingDefaultsToFullChar ==
    (Built /\ ~leading_given) => bar.leading_char = bar.full_char

\* C6: for total > 0 the rendered string is '[', exactly width track cells,
\* ']' and then only the suffixes, whatever current_partial is.
C6_TrackHasWidthCells ==
    (Built /\ bar.total > 0)
    => LET s == Rendered
           w == bar.width
       IN  /\ Len(s) >= w + 2
           /\ s[1] = "["
           /\ s[w + 2] = "]"
           /\ \A i \in 2 .. w + 1 :
                 s[i] \in {bar.full_char, bar.leading_char, bar.empty_char}
           /\ IF bar.include_percent \/ bar.include_numbers
              THEN Len(s) > w + 3 /\ s[w + 3] = " "
              ELSE Len(s) = w + 2

\* C6 witness: a bar of width 3 past its total has been rendered with a suffix.
C6_Witness ==
    /\ Built
    /\ call = "fmt"
    /\ bar.width = 3
    /\ bar.total > 0
    /\ bar.current_partial > bar.total
    /\ Len(out.str) > 5
    /\ out.str[5] = "]"

C8_WidthIsRenderedLengthWithNumbers ==
    (/\ Built
     /\ bar.width = 50
     /\ bar.include_numbers
     /\ ~bar.include_percent)
    => /\ get_width(bar) = Len(Rendered)
       /\ get_width(bar) = 52 + DecimalDigits(bar.total)
                              + DecimalDigits(bar.current_partial) + 2

\* C8 witness: get_width() has returned 60 for a numbers bar past its total.
C8_Witness ==
    /\ Built
    /\ bar.width = 50
    /\ bar.include_numbers
    /\ ~bar.include_percent
    /\ bar.current_partial > bar.total
    /\ call = "get_width"
    /\ out.num = 60

\* C9: fmt, get_width and get_last_width change no field of the bar, and two
\* renderings in a row are the same string; update and replace change only
\* current_partial and the width snapshot; the width snapshot changes in
\* update and replace only.
C9_Frame ==
    [][/\ (call' \in {"fmt", "get_width", "get_last_width"} => bar' = bar)
       /\ (call' \in {"update", "replace"} =>
              bar' = [bar EXCEPT !.current_partial     = bar'.current_partial,
                                 !.previous_text_width = bar'.previous_text_width])
       /\ (call' \notin {"update", "replace"} =>
              bar'.previous_text_width = bar.previous_text_width)
       /\ (call = "fmt" /\ call' = "fmt" => out' = out)]_vars

\* C9 witness: a mutated bar with a non-zero snapshot has been rendered.
C9_Witness ==
    /\ Built
    /\ mutated
    /\ call = "fmt"
    /\ out.str = Rendered
    /\ bar.previous_text_width > 0
    /\ bar.current_partial > 0

\* C10: for total t > 0, width w and current_partial c, cell i of the track
\* is full_char when i < w*c/t - 1, leading_char when w*c/t - 1 <= i < w*c/t,
\* and empty_char otherwise.
C10_CellsFollowExactRatio ==
    (Built /\ bar.total > 0)
    => LET w == bar.width
           c == bar.current_partial
           t == bar.total
       IN  \A i \in 0 .. w - 1 :
              Track(bar)[i + 1] =
                 IF i * t < w * c - t THEN bar.full_char
                 ELSE IF i * t < w * c THEN bar.leading_char
                 ELSE bar.empty_char

====
